---- MODULE Spec2Model ----
(***************************************************************************)
(* Model of the STAC catalog builder (scripts/python/make_catalog.py) and  *)
(* of the catalog validator (scripts/python/validate_catalog.py).          *)
(*                                                                         *)
(* Text is a sequence of one-character strings, so that joining, parsing   *)
(* and relativising hrefs is computed character by character, the way the  *)
(* calls made by the source compute it.  os.path is posixpath.             *)
(***************************************************************************)
EXTENDS Integers, Sequences, FiniteSets, TLC

(***************************************************************************)
(* Bounds of the model.                                                    *)
(***************************************************************************)
MaxDirs == 2
MaxRuns == 2
MaxChildren == 2

(***************************************************************************)
(* Text helpers.                                                           *)
(***************************************************************************)
StartsWith(s, p) == Len(s) >= Len(p) /\ SubSeq(s, 1, Len(p)) = p

EndsWith(s, p) == Len(s) >= Len(p) /\ SubSeq(s, Len(s) - Len(p) + 1, Len(s)) = p

DropFirst(s, n) == SubSeq(s, n + 1, Len(s))

\* a local name: Body applied to the value v
With(v, Body(_)) == Body(v)

\* str.find: the first index holding c, 0 when there is none
Find(s, c) ==
    IF \E i \in 1..Len(s) : s[i] = c
    THEN CHOOSE i \in 1..Len(s) : s[i] = c /\ \A j \in 1..(i - 1) : s[j] # c
    ELSE 0

\* str.rfind: the last index holding c, 0 when there is none
RFind(s, c) ==
    IF \E i \in 1..Len(s) : s[i] = c
    THEN CHOOSE i \in 1..Len(s) : s[i] = c /\ \A j \in (i + 1)..Len(s) : s[j] # c
    ELSE 0

\* str.lstrip("/")
RECURSIVE LStripSlash(_)
LStripSlash(s) == IF s # <<>> /\ s[1] = "/" THEN LStripSlash(Tail(s)) ELSE s

\* str.rstrip("/")
RECURSIVE RStripSlash(_)
RStripSlash(s) ==
    IF s # <<>> /\ s[Len(s)] = "/" THEN RStripSlash(SubSeq(s, 1, Len(s) - 1)) ELSE s

\* the characters of the model in code-point order
AsciiOrder ==
    << "+", "-", ".", "/", "1", "3", ":", "C", "\\", "a", "b", "c", "d", "e",
       "f", "g", "h", "i", "j", "k", "l", "m", "n", "o", "p", "r", "s", "t",
       "v", "w", "x" >>

Ord(c) == CHOOSE i \in 1..Len(AsciiOrder) : AsciiOrder[i] = c

IsAlpha(c) == Ord(c) >= Ord("C") /\ c # "\\"

IsDigit(c) == c \in {"1", "3"}

\* str.lower on one character ("C" is the only upper-case letter in use)
LowerChar(c) == IF c = "C" THEN "c" ELSE c

Lower(s) == [i \in 1..Len(s) |-> LowerChar(s[i])]

\* Python's order on str: by code point, a proper prefix first
RECURSIVE StrLess(_, _)
StrLess(a, b) ==
    IF b = <<>> THEN FALSE
    ELSE IF a = <<>> THEN TRUE
    ELSE IF a[1] = b[1] THEN StrLess(Tail(a), Tail(b))
    ELSE Ord(a[1]) < Ord(b[1])

(***************************************************************************)
(* Fixed text of the program.                                              *)
(***************************************************************************)
ITEMS_DIR == <<"i", "t", "e", "m", "s">>

JSON_EXT == <<".", "j", "s", "o", "n">>

COLLECTION_JSON ==
    <<"c", "o", "l", "l", "e", "c", "t", "i", "o", "n", ".", "j", "s", "o", "n">>

CATALOG_JSON == <<"c", "a", "t", "a", "l", "o", "g", ".", "j", "s", "o", "n">>

CATALOG_PUBLISHED_URL ==
    << "h", "t", "t", "p", "s", ":", "/", "/", "c", "o", "c", "l", "i", "c", "o",
       ".", "b", "l", "o", "b", ".", "c", "o", "r", "e", ".", "w", "i", "n", "d",
       "o", "w", "s", ".", "n", "e", "t", "/", "s", "t", "a", "c", "/", "v", "1",
       "/", "c", "a", "t", "a", "l", "o", "g", ".", "j", "s", "o", "n" >>

\* PROJECT_ROOT / "release" / "v1", with the project checked out at /p
RELEASE_DIR == <<"/", "p", "/", "r", "e", "l", "e", "a", "s", "e", "/", "v", "1">>

(***************************************************************************)
(* posixpath and urllib.parse, as pystac.utils uses them.                  *)
(***************************************************************************)
\* posixpath.join of two parts
PosixJoin2(a, b) ==
    IF b # <<>> /\ b[1] = "/" THEN b
    ELSE IF a = <<>> \/ a[Len(a)] = "/" THEN a \o b
    ELSE a \o <<"/">> \o b

\* os.path.join on the build host
OsPathJoin2(a, b) == PosixJoin2(a, b)

\* os.path.dirname
Dirname(p) ==
    LET i == RFind(p, "/")
        head == SubSeq(p, 1, i)
    IN  IF head # <<>> /\ RStripSlash(head) # <<>> THEN RStripSlash(head) ELSE head

\* os.path.basename
Basename(p) == DropFirst(p, RFind(p, "/"))

\* the characters urllib accepts in a scheme
IsSchemeChar(c) == IsAlpha(c) \/ IsDigit(c) \/ c \in {"+", "-", "."}

\* urllib.parse.urlparse: scheme, netloc and path of a href
UrlParse(href) ==
    With(Find(href, ":"), LAMBDA i :
    With(/\ i > 1
         /\ IsAlpha(href[1])
         /\ \A j \in 1..(i - 1) : IsSchemeChar(href[j]), LAMBDA hasScheme :
    With(IF hasScheme THEN Lower(SubSeq(href, 1, i - 1)) ELSE <<>>, LAMBDA scheme :
    With(IF hasScheme THEN DropFirst(href, i) ELSE href, LAMBDA rest :
    With(DropFirst(rest, 2), LAMBDA afterSlashes :
    With(Find(afterSlashes, "/"), LAMBDA k :
        IF StartsWith(rest, <<"/", "/">>)
        THEN [scheme |-> scheme,
              netloc |-> IF k = 0 THEN afterSlashes ELSE SubSeq(afterSlashes, 1, k - 1),
              path |-> IF k = 0 THEN <<>> ELSE DropFirst(afterSlashes, k - 1)]
        ELSE [scheme |-> scheme, netloc |-> <<>>, path |-> rest]))))))

\* pystac.utils.safe_urlparse: a drive letter is no scheme
SafeUrlParse(href) ==
    With(UrlParse(href), LAMBDA parsed :
    With(Lower(href), LAMBDA low :
        IF /\ parsed.scheme # <<>>
           /\ \/ StartsWith(low, parsed.scheme \o <<":", "\\">>)
              \/ /\ StartsWith(low, parsed.scheme \o <<":", "/">>)
                 /\ ~StartsWith(low, parsed.scheme \o <<":", "/", "/">>)
        THEN [scheme |-> <<>>, netloc |-> <<>>,
              path |-> SubSeq(href, 1, Len(parsed.scheme)) \o <<":">> \o parsed.path]
        ELSE parsed))

\* JoinType.from_parsed_uri
JoinTypeAlwaysPath(parsed) == "path"

JoinTypeFromParsedUri(parsed) == IF parsed.scheme = <<>> THEN "path" ELSE "url"

\* pystac.utils.join_path_or_url with two parts after the first
JoinPathOrUrl(join_type, a, b, c) ==
    IF join_type = "path"
    THEN OsPathJoin2(OsPathJoin2(a, b), c)
    ELSE PosixJoin2(PosixJoin2(a, b), c)

(***************************************************************************)
(* The layout policy.                                                      *)
(***************************************************************************)
\* a layout that leaves the item beside the collection document
GetItemHrefFlat(item_id, parent_dir) ==
    PosixJoin2(parent_dir, item_id \o JSON_EXT)

\* ItemInSubdirLayout.get_item_href
GetItemHref(item_id, parent_dir) ==
    LET parsed_parent_dir == SafeUrlParse(parent_dir)
        join_type == JoinTypeFromParsedUri(parsed_parent_dir)
        items_dir == ITEMS_DIR
        item_filename == item_id \o JSON_EXT
    IN  JoinPathOrUrl(join_type, parent_dir, items_dir, item_filename)

\* BestPracticesLayoutStrategy.get_collection_href, which the policy inherits
GetCollectionHref(col_id, parent_dir) ==
    LET parsed_parent_dir == SafeUrlParse(parent_dir)
        join_type == JoinTypeFromParsedUri(parsed_parent_dir)
    IN  JoinPathOrUrl(join_type, parent_dir, col_id, COLLECTION_JSON)

(***************************************************************************)
(* pystac.utils hrefs: absolute or relative, and the conversions.          *)
(***************************************************************************)
\* the non-empty segments of a path, split at "/"
RECURSIVE Segments(_)
Segments(p) ==
    LET q == LStripSlash(p)
        i == Find(q, "/")
    IN  IF q = <<>> THEN <<>>
        ELSE IF i = 0 THEN <<q>>
        ELSE <<SubSeq(q, 1, i - 1)>> \o Segments(DropFirst(q, i))

\* posixpath.join of a list of segments
RECURSIVE JoinSegments(_)
JoinSegments(segs) ==
    IF segs = <<>> THEN <<>>
    ELSE IF Len(segs) = 1 THEN segs[1]
    ELSE segs[1] \o <<"/">> \o JoinSegments(Tail(segs))

\* posixpath.normpath on segments: "." goes, ".." takes the segment before it
RECURSIVE NormSegments(_, _)
NormSegments(done, todo) ==
    IF todo = <<>> THEN done
    ELSE IF todo[1] = <<".">> THEN NormSegments(done, Tail(todo))
    ELSE IF todo[1] = <<".", ".">>
         THEN NormSegments(IF done = <<>> THEN done ELSE SubSeq(done, 1, Len(done) - 1),
                           Tail(todo))
    ELSE NormSegments(Append(done, todo[1]), Tail(todo))

\* the length of the common prefix of two segment lists
RECURSIVE CommonPrefixLen(_, _)
CommonPrefixLen(a, b) ==
    IF a = <<>> \/ b = <<>> \/ a[1] # b[1] THEN 0
    ELSE 1 + CommonPrefixLen(Tail(a), Tail(b))

\* posixpath.relpath(path, start)
Relpath(path, start) ==
    With(NormSegments(<<>>, Segments(start)), LAMBDA start_list :
    With(NormSegments(<<>>, Segments(path)), LAMBDA path_list :
    With(CommonPrefixLen(start_list, path_list), LAMBDA i :
    With([k \in 1..(Len(start_list) - i) |-> <<".", ".">>]
            \o SubSeq(path_list, i + 1, Len(path_list)), LAMBDA rel_list :
        IF rel_list = <<>> THEN <<".">> ELSE JoinSegments(rel_list)))))

\* pystac.utils.is_absolute_href
IsAbsoluteHref(href) ==
    With(SafeUrlParse(href), LAMBDA parsed :
        parsed.scheme # <<>> \/ StartsWith(parsed.path, <<"/">>))

\* pystac.utils.make_relative_href: a href on another scheme or host is kept
MakeRelativeHref(source_href, start_href) ==
    With(SafeUrlParse(source_href), LAMBDA parsed_source :
    With(SafeUrlParse(start_href), LAMBDA parsed_start :
    With(LStripSlash(Dirname(parsed_start.path)), LAMBDA start_dir :
    With(LStripSlash(parsed_source.path), LAMBDA source_path :
    With(Relpath(source_path, start_dir), LAMBDA rel0 :
    With(IF EndsWith(parsed_source.path, <<"/">>) THEN rel0 \o <<"/">> ELSE rel0,
         LAMBDA rel1 :
        IF ~(parsed_source.scheme = parsed_start.scheme
             /\ parsed_source.netloc = parsed_start.netloc)
        THEN source_href
        ELSE IF rel1 # <<".", "/">> /\ ~StartsWith(rel1, <<".", ".", "/">>)
        THEN <<".", "/">> \o rel1
        ELSE rel1))))))

\* pystac.utils.make_absolute_href against the href of the owning document
MakeAbsoluteHref(source_href, start_href) ==
    With(SafeUrlParse(source_href), LAMBDA parsed_source :
    With(SafeUrlParse(start_href), LAMBDA parsed_start :
    With(<<"/">> \o JoinSegments(NormSegments(<<>>,
             Segments(PosixJoin2(Dirname(parsed_start.path), parsed_source.path)))),
         LAMBDA joined :
        IF parsed_source.scheme # <<>> \/ StartsWith(parsed_source.path, <<"/">>)
        THEN source_href
        ELSE IF parsed_start.scheme # <<>>
        THEN parsed_start.scheme \o <<":", "/", "/">> \o parsed_start.netloc \o joined
        ELSE joined)))

(***************************************************************************)
(* pystac objects: links, documents and their (de)serialisation.           *)
(***************************************************************************)
HIERARCHICAL_LINKS == {"root", "child", "parent", "collection", "item", "items"}

\* what a link in memory points at: a href, the owner, the catalog, or child k
Unresolved == -1
Owner == -2
TheCatalog == 0

MemLink(rel, obj, href) == [rel |-> rel, obj |-> obj, href |-> href]

DiskLink(rel, href) == [rel |-> rel, href |-> href]

\* STACObject.remove_links
RemoveLinks(links, rel) == SelectSeq(links, LAMBDA l : l.rel # rel)

\* STACObject.get_self_href; the empty text stands for None
GetSelfHref(links) ==
    LET s == SelectSeq(links, LAMBDA l : l.rel = "self")
    IN  IF s = <<>> THEN <<>> ELSE s[1].href

\* STACObject.set_self_href
SetSelfHref(links, href) ==
    Append(RemoveLinks(links, "self"), MemLink("self", Unresolved, href))

\* STACObject.set_root: the root link is replaced where it stands
SetRoot(links, obj) ==
    IF \E i \in 1..Len(links) : links[i].rel = "root"
    THEN LET idx == CHOOSE i \in 1..Len(links) :
                        links[i].rel = "root" /\ \A j \in 1..(i - 1) : links[j].rel # "root"
         IN  [links EXCEPT ![idx] = MemLink("root", obj, <<>>)]
    ELSE Append(links, MemLink("root", obj, <<>>))

\* a set_parent that forgets to drop the parent link read from the file
SetParentKeepingOld(links, obj) == Append(links, MemLink("parent", obj, <<>>))

\* STACObject.set_parent
SetParent(links, obj) == Append(RemoveLinks(links, "parent"), MemLink("parent", obj, <<>>))

\* Catalog.from_dict with a href: the constructor's root and self links, then the
\* links of the document except its self link
RECURSIVE FromDictLinks(_, _)
FromDictLinks(acc, dlinks) ==
    IF dlinks = <<>> THEN acc
    ELSE LET l == dlinks[1]
             acc1 == IF l.rel = "root" THEN RemoveLinks(acc, "root") ELSE acc
             acc2 == IF l.rel # "self"
                     THEN Append(acc1, MemLink(l.rel, Unresolved, l.href))
                     ELSE acc1
         IN  FromDictLinks(acc2, Tail(dlinks))

FromDict(doc, href) ==
    FromDictLinks(<<MemLink("root", Owner, <<>>), MemLink("self", Unresolved, href)>>,
                  doc.links)

\* CatalogType.determine_type
DetermineType(doc) ==
    With(\E i \in 1..Len(doc.links) : doc.links[i].rel = "self", LAMBDA has_self :
    With(\E i \in 1..Len(doc.links) :
             doc.links[i].rel # "self" /\ ~IsAbsoluteHref(doc.links[i].href),
         LAMBDA relative :
        IF has_self
        THEN (IF relative THEN "RELATIVE_PUBLISHED" ELSE "ABSOLUTE_PUBLISHED")
        ELSE (IF relative THEN "SELF_CONTAINED" ELSE "NONE")))

\* Catalog.is_relative
IsRelativeType(catalog_type) == catalog_type \in {"SELF_CONTAINED", "RELATIVE_PUBLISHED"}

\* Link.get_href(transform_href=True): the target's href, made relative to the
\* owner when the link is hierarchical and the root catalog is relative
LinkGetHref(rel, target_href, owner_href, root_relative) ==
    IF /\ target_href # <<>>
       /\ IsAbsoluteHref(target_href)
       /\ root_relative
       /\ rel \in HIERARCHICAL_LINKS
       /\ owner_href # <<>>
    THEN MakeRelativeHref(target_href, owner_href)
    ELSE target_href

(***************************************************************************)
(* Configuration of the builder and the files it works on.                 *)
(***************************************************************************)
CATALOG_ID ==
    <<"c", "a", "l", "k", "o", "e", "n", "-", "p", "h", "d", "-", "s", "t", "a", "c">>

\* the directory names a run may be configured with
Names == { <<"g", "c", "t", "s">>, <<"g", "c", "t", "r">>, <<"g", "c">> }

\* output_dir / "catalog.json"
CatalogPath == OsPathJoin2(RELEASE_DIR, CATALOG_JSON)

\* output_dir / collection_id / "collection.json"
CollectionPath(collection_id) ==
    OsPathJoin2(OsPathJoin2(RELEASE_DIR, collection_id), COLLECTION_JSON)

Paths == {CatalogPath} \cup {CollectionPath(n) : n \in Names}

NoDoc == [type |-> "none", id |-> <<>>, valid |-> FALSE, links |-> <<>>]

GarbageDoc == [type |-> "garbage", id |-> <<>>, valid |-> FALSE, links |-> <<>>]

\* the public location of a collection directory
PublishedDir(name) == Dirname(CATALOG_PUBLISHED_URL) \o <<"/">> \o name

\* the href a source collection records for its item "t": relative, an absolute
\* local path, or an absolute URL of the published copy
ItemLinkHref(name, kind) ==
    CASE kind = "rel" -> <<".", "/">> \o ITEMS_DIR \o <<"/", "t">> \o JSON_EXT
      [] kind = "local" -> GetItemHref(<<"t">>, Dirname(CollectionPath(name)))
      [] kind = "url" -> GetItemHref(<<"t">>, PublishedDir(name))

\* a collection document as an upstream producer left it
SourceDoc(name, v) ==
    CASE v.st = "none" -> NoDoc
      [] v.st = "garbage" -> GarbageDoc
      [] v.st = "doc" ->
           [type |-> "Collection", id |-> name, valid |-> v.valid,
            links |->
               (IF v.pre
                THEN << DiskLink("root", <<".", ".", "/">> \o CATALOG_JSON),
                        DiskLink("self", PublishedDir(name) \o <<"/">> \o COLLECTION_JSON),
                        DiskLink("parent", <<".", ".", "/">> \o CATALOG_JSON) >>
                ELSE <<>>)
               \o <<DiskLink("item", ItemLinkHref(name, v.kind))>>]

Absent == [st |-> "none", valid |-> FALSE, kind |-> "rel", pre |-> FALSE]

Variants ==
    { Absent, [st |-> "garbage", valid |-> FALSE, kind |-> "rel", pre |-> FALSE],
      [st |-> "doc", valid |-> FALSE, kind |-> "rel", pre |-> FALSE] }
    \cup { [st |-> "doc", valid |-> TRUE, kind |-> k, pre |-> p] :
              k \in {"rel", "local", "url"}, p \in BOOLEAN }

\* sorted(): insertion into a sorted list, equal names kept
RECURSIVE InsertSorted(_, _)
InsertSorted(x, s) ==
    IF s = <<>> THEN <<x>>
    ELSE IF StrLess(x, s[1]) THEN <<x>> \o s
    ELSE <<s[1]>> \o InsertSorted(x, Tail(s))

RECURSIVE SortedFrom(_, _)
SortedFrom(acc, s) ==
    IF s = <<>> THEN acc ELSE SortedFrom(InsertSorted(s[1], acc), Tail(s))

\* a loop over the list as configured
Unsorted(s) == s

\* sorted(collection_dirs)
Sorted(s) == SortedFrom(<<>>, s)

\* what Collection.from_file does with the file at a path
LoadResult(doc) ==
    CASE doc.type = "none" -> "not_found"
      [] doc.type = "Collection" -> "ok"
      [] OTHER -> "error"

\* where control goes when one collection fails to load: nowhere but on
AbortOnLoadFailure == "raised"

AfterLoadFailure == "loop"

\* where control goes after the validation step (the call is commented out)
AfterValidation == "save"

\* where control goes when the save, the re-open or the root re-save raises
ContinueAfterFailure == "reopen"

AfterSaveFailure == "raised"

AfterReopenFailure == "raised"

AfterAnchorFailure == "raised"

\* the self href the re-anchor sets on the re-opened root
SelfHrefLeftLocal == CatalogPath

AnchorSelfHref == CATALOG_PUBLISHED_URL

VARIABLES
    prog,            \* which program the behaviour is of
    pc,              \* the builder's position
    run,             \* the number of the builder's run
    collection_dirs, \* the configured list
    order,           \* sorted(collection_dirs)
    idx,             \* the loop's position in order
    disk,            \* the documents under the output directory
    catalog,         \* the root catalog in memory
    children,        \* the collections attached to it, in order
    root_catalog,    \* the root as re-opened from disk
    out,             \* what the builder printed
    io,              \* the file reads and writes of the run, in order
    saved_disk,      \* the disk as the self-contained save left it
    prev_disk,       \* the disk as the previous run left it
    lay_kind, lay_id, lay_parent, lay_join, lay_href, lay_pc,
    v_argv, v_root, v_kids, v_pc, v_i, v_exc, v_exitcalls, v_status, v_out

bvars == <<pc, run, collection_dirs, order, idx, disk, catalog, children,
           root_catalog, out, io, saved_disk, prev_disk>>

layvars == <<lay_kind, lay_id, lay_parent, lay_join, lay_href, lay_pc>>

vvars == <<v_argv, v_root, v_kids, v_pc, v_i, v_exc, v_exitcalls, v_status, v_out>>

vars == <<prog, bvars, layvars, vvars>>

NoObject == [catalog_type |-> "NONE", links |-> <<>>]

EmptyDisk == [p \in Paths |-> NoDoc]

BuilderIdle ==
    /\ pc = "idle" /\ run = 0 /\ collection_dirs = <<>> /\ order = <<>> /\ idx = 0
    /\ disk = EmptyDisk /\ catalog = NoObject /\ children = <<>>
    /\ root_catalog = NoObject /\ out = <<>> /\ io = <<>>
    /\ saved_disk = EmptyDisk /\ prev_disk = EmptyDisk

LayoutIdle ==
    /\ lay_kind = "none" /\ lay_id = <<>> /\ lay_parent = <<>>
    /\ lay_join = "none" /\ lay_href = <<>> /\ lay_pc = "idle"

ValidatorIdle ==
    /\ v_argv = FALSE /\ v_root = "none" /\ v_kids = <<>> /\ v_pc = "idle" /\ v_i = 0
    /\ v_exc = "none" /\ v_exitcalls = <<>> /\ v_status = -1 /\ v_out = <<>>

SeqsUpTo(S, n) == UNION {[1..k -> S] : k \in 0..n}

(***************************************************************************)
(* The builder: create_and_save_catalog.                                   *)
(***************************************************************************)
InitBuilder ==
    /\ prog = "builder"
    /\ pc = "start" /\ run = 1
    /\ collection_dirs \in SeqsUpTo(Names, MaxDirs)
    /\ order = <<>> /\ idx = 0
    /\ \E v \in [Names -> Variants] :
          /\ \A n \in Names :
                (\A i \in 1..Len(collection_dirs) : collection_dirs[i] # n) => v[n] = Absent
          /\ disk = [p \in Paths |->
                       IF \E n \in Names : p = CollectionPath(n)
                       THEN SourceDoc(CHOOSE n \in Names : p = CollectionPath(n),
                                      v[CHOOSE n \in Names : p = CollectionPath(n)])
                       ELSE NoDoc]
    /\ catalog = NoObject /\ children = <<>> /\ root_catalog = NoObject
    /\ out = <<>> /\ io = <<>>
    /\ saved_disk = EmptyDisk /\ prev_disk = EmptyDisk
    /\ LayoutIdle /\ ValidatorIdle

Msg(stream, msg, arg) == [stream |-> stream, msg |-> msg, arg |-> arg]

Io(op, path, ok, phase) == [op |-> op, path |-> path, ok |-> ok, phase |-> phase]

\* the href a link in memory stands for
TargetHref(l, owner_href, catalog_href, childs) ==
    CASE l.obj = Unresolved -> l.href
      [] l.obj = Owner -> owner_href
      [] l.obj = TheCatalog -> catalog_href
      [] OTHER -> GetSelfHref(childs[l.obj].links)

\* the "links" of STACObject.to_dict
ToDictLinks(links, include_self_link, root_relative, catalog_href, childs) ==
    LET ls == IF include_self_link THEN links ELSE RemoveLinks(links, "self")
        owner_href == GetSelfHref(links)
    IN  [i \in 1..Len(ls) |->
            DiskLink(ls[i].rel,
                     LinkGetHref(ls[i].rel,
                                 TargetHref(ls[i], owner_href, catalog_href, childs),
                                 owner_href, root_relative))]

\* lines 113-129: the root catalog in memory, its self href the local path
Construct ==
    /\ prog = "builder" /\ pc = "start"
    /\ catalog' = [catalog_type |-> "ABSOLUTE_PUBLISHED",
                   links |-> SetSelfHref(<<MemLink("root", Owner, <<>>)>>, CatalogPath)]
    /\ order' = Sorted(collection_dirs)
    /\ idx' = 1
    /\ out' = out \o << Msg("stdout", "creating", CATALOG_ID),
                        Msg("stdout", "reading", <<>>) >>
    /\ pc' = "loop"
    /\ UNCHANGED <<prog, run, collection_dirs, disk, children, root_catalog, io,
                   saved_disk, prev_disk, layvars, vvars>>

\* Catalog.add_child(child, strategy=ItemInSubdirLayout()): the links of the child
AddChildLinks(child_id, loaded) ==
    LET self_href == GetSelfHref(catalog.links)
        l1 == SetRoot(loaded, TheCatalog)
        l2 == SetParent(l1, TheCatalog)
    IN  IF self_href # <<>>
        THEN SetSelfHref(l2, GetCollectionHref(child_id, Dirname(self_href)))
        ELSE l2

\* lines 130-136: the next collection loads and is attached
LoadOk ==
    /\ prog = "builder" /\ pc = "loop" /\ idx <= Len(order)
    /\ LET collection_id == order[idx]
           collection_path == CollectionPath(collection_id)
           doc == disk[collection_path]
       IN  /\ LoadResult(doc) = "ok"
           /\ children' = Append(children,
                  [name |-> collection_id, id |-> doc.id, valid |-> doc.valid,
                   links |-> AddChildLinks(doc.id, FromDict(doc, collection_path))])
           /\ catalog' = [catalog EXCEPT
                  !.links = Append(@, MemLink("child", Len(children) + 1, <<>>))]
           /\ out' = Append(out, Msg("stdout", "read_collection", collection_id))
           /\ io' = Append(io, Io("read", collection_path, TRUE, "load"))
    /\ idx' = idx + 1
    /\ UNCHANGED <<prog, pc, run, collection_dirs, order, disk, root_catalog,
                   saved_disk, prev_disk, layvars, vvars>>

\* lines 137-138: the file is not there
LoadNotFound ==
    /\ prog = "builder" /\ pc = "loop" /\ idx <= Len(order)
    /\ LET collection_path == CollectionPath(order[idx])
       IN  /\ LoadResult(disk[collection_path]) = "not_found"
           /\ out' = Append(out, Msg("stdout", "warning_not_found", collection_path))
           /\ io' = Append(io, Io("read", collection_path, FALSE, "load"))
    /\ idx' = idx + 1
    /\ pc' = AfterLoadFailure
    /\ UNCHANGED <<prog, run, collection_dirs, order, disk, catalog, children,
                   root_catalog, saved_disk, prev_disk, layvars, vvars>>

\* lines 139-142: the file does not load as a collection
LoadError ==
    /\ prog = "builder" /\ pc = "loop" /\ idx <= Len(order)
    /\ LET collection_path == CollectionPath(order[idx])
       IN  /\ LoadResult(disk[collection_path]) = "error"
           /\ out' = Append(out, Msg("stdout", "warning_error", collection_path))
           /\ io' = Append(io, Io("read", collection_path, FALSE, "load"))
    /\ idx' = idx + 1
    /\ pc' = AfterLoadFailure
    /\ UNCHANGED <<prog, run, collection_dirs, order, disk, catalog, children,
                   root_catalog, saved_disk, prev_disk, layvars, vvars>>

\* lines 144-151: the try block holds two prints and no call, so nothing raises
Validate ==
    /\ prog = "builder" /\ pc = "loop" /\ idx > Len(order)
    /\ out' = out \o << Msg("stdout", "validating", <<>>),
                        Msg("stdout", "validation_successful", <<>>) >>
    /\ pc' = AfterValidation
    /\ UNCHANGED <<prog, run, collection_dirs, order, idx, disk, catalog, children,
                   root_catalog, io, saved_disk, prev_disk, layvars, vvars>>

\* the document Catalog.save writes for child k of a catalog of the given type
ChildDoc(k, catalog_type) ==
    [type |-> "Collection", id |-> children[k].id, valid |-> children[k].valid,
     links |-> ToDictLinks(children[k].links, FALSE, IsRelativeType(catalog_type),
                           GetSelfHref(catalog.links), children)]

\* the document Catalog.save writes for the root: no self link when self-contained
CatalogDoc(catalog_type) ==
    [type |-> "Catalog", id |-> CATALOG_ID, valid |-> TRUE,
     links |-> ToDictLinks(catalog.links, catalog_type = "ABSOLUTE_PUBLISHED",
                           IsRelativeType(catalog_type),
                           GetSelfHref(catalog.links), children)]

\* the disk after the first n children were written, in order
DiskAfterChildren(n, catalog_type) ==
    [p \in Paths |->
        IF \E k \in 1..n : GetSelfHref(children[k].links) = p
        THEN ChildDoc(CHOOSE k \in 1..n :
                          /\ GetSelfHref(children[k].links) = p
                          /\ \A j \in (k + 1)..n : GetSelfHref(children[j].links) # p,
                      catalog_type)
        ELSE disk[p]]

ChildWrites(n) ==
    [k \in 1..n |-> Io("write", GetSelfHref(children[k].links), TRUE, "save")]

\* lines 156-157: catalog.save(SELF_CONTAINED) writes every resolved child, then the
\* root; the items of a collection read from a file are not resolved, so none is written
SaveOk ==
    /\ prog = "builder" /\ pc = "save"
    /\ catalog' = [catalog EXCEPT !.catalog_type = "SELF_CONTAINED"]
    /\ disk' = [DiskAfterChildren(Len(children), "SELF_CONTAINED") EXCEPT
                   ![CatalogPath] = CatalogDoc("SELF_CONTAINED")]
    /\ saved_disk' = disk'
    /\ io' = io \o ChildWrites(Len(children))
                \o <<Io("write", CatalogPath, TRUE, "save")>>
    /\ out' = Append(out, Msg("stdout", "saving", <<>>))
    /\ pc' = "reopen"
    /\ UNCHANGED <<prog, run, collection_dirs, order, idx, children, root_catalog,
                   prev_disk, layvars, vvars>>

\* the write of child n + 1, or of the root after all children, raises
SaveFail ==
    /\ prog = "builder" /\ pc = "save"
    /\ \E n \in 0..Len(children) :
          /\ disk' = DiskAfterChildren(n, "SELF_CONTAINED")
          /\ io' = io \o ChildWrites(n)
                      \o << Io("write",
                               IF n < Len(children)
                               THEN GetSelfHref(children[n + 1].links) ELSE CatalogPath,
                               FALSE, "save") >>
    /\ catalog' = [catalog EXCEPT !.catalog_type = "SELF_CONTAINED"]
    /\ out' = Append(out, Msg("stdout", "saving", <<>>))
    /\ pc' = AfterSaveFailure
    /\ UNCHANGED <<prog, run, collection_dirs, order, idx, children, root_catalog,
                   saved_disk, prev_disk, layvars, vvars>>

\* Catalog.from_file: the links of the document, the root link resolved to the
\* catalog itself when it points at the file just read
FromFileLinks(doc, href) ==
    LET loaded == FromDict(doc, href)
        roots == SelectSeq(loaded, LAMBDA l : l.rel = "root")
    IN  IF /\ roots # <<>>
           /\ roots[1].obj = Unresolved
           /\ MakeAbsoluteHref(roots[1].href, href) = href
        THEN SetRoot(loaded, Owner)
        ELSE loaded

\* lines 162-163: the root is read back from disk
ReopenOk ==
    /\ prog = "builder" /\ pc = "reopen"
    /\ disk[CatalogPath].type = "Catalog"
    /\ root_catalog' = [catalog_type |-> DetermineType(disk[CatalogPath]),
                        links |-> FromFileLinks(disk[CatalogPath], CatalogPath)]
    /\ io' = Append(io, Io("read", CatalogPath, TRUE, "reopen"))
    /\ out' = Append(out, Msg("stdout", "anchoring", CATALOG_PUBLISHED_URL))
    /\ pc' = "anchor"
    /\ UNCHANGED <<prog, run, collection_dirs, order, idx, disk, catalog, children,
                   saved_disk, prev_disk, layvars, vvars>>

\* the read of the root raises
ReopenFail ==
    /\ prog = "builder" /\ pc = "reopen"
    /\ io' = Append(io, Io("read", CatalogPath, FALSE, "reopen"))
    /\ out' = Append(out, Msg("stdout", "anchoring", CATALOG_PUBLISHED_URL))
    /\ pc' = AfterReopenFailure
    /\ UNCHANGED <<prog, run, collection_dirs, order, idx, disk, catalog, children,
                   root_catalog, saved_disk, prev_disk, layvars, vvars>>

\* the document save_object writes for the re-opened root, self link included
RootDoc(links, catalog_type) ==
    [type |-> "Catalog", id |-> disk[CatalogPath].id, valid |-> disk[CatalogPath].valid,
     links |-> ToDictLinks(links, TRUE, IsRelativeType(catalog_type), <<>>, <<>>)]

\* lines 164-166: the public self href, and the root alone written back
AnchorOk ==
    /\ prog = "builder" /\ pc = "anchor"
    /\ root_catalog' = [root_catalog EXCEPT !.links = SetSelfHref(@, AnchorSelfHref)]
    /\ disk' = [disk EXCEPT
                   ![CatalogPath] = RootDoc(root_catalog'.links, root_catalog.catalog_type)]
    /\ io' = Append(io, Io("write", CatalogPath, TRUE, "anchor"))
    /\ pc' = "finish"
    /\ UNCHANGED <<prog, run, collection_dirs, order, idx, catalog, children, out,
                   saved_disk, prev_disk, layvars, vvars>>

\* the write of the root raises
AnchorFail ==
    /\ prog = "builder" /\ pc = "anchor"
    /\ root_catalog' = [root_catalog EXCEPT !.links = SetSelfHref(@, AnchorSelfHref)]
    /\ io' = Append(io, Io("write", CatalogPath, FALSE, "anchor"))
    /\ pc' = AfterAnchorFailure
    /\ UNCHANGED <<prog, run, collection_dirs, order, idx, disk, catalog, children,
                   out, saved_disk, prev_disk, layvars, vvars>>

\* line 168
Finish ==
    /\ prog = "builder" /\ pc = "finish"
    /\ out' = Append(out, Msg("stdout", "successfully_saved", CatalogPath))
    /\ pc' = "done"
    /\ UNCHANGED <<prog, run, collection_dirs, order, idx, disk, catalog, children,
                   root_catalog, io, saved_disk, prev_disk, layvars, vvars>>

\* line 172 once more: the script is run again on what the run before left
RunAgain ==
    /\ prog = "builder" /\ pc = "done" /\ run < MaxRuns
    /\ run' = run + 1
    /\ prev_disk' = disk
    /\ pc' = "start"
    /\ order' = <<>> /\ idx' = 0
    /\ catalog' = NoObject /\ children' = <<>> /\ root_catalog' = NoObject
    /\ out' = <<>> /\ io' = <<>>
    /\ UNCHANGED <<prog, collection_dirs, disk, saved_disk, layvars, vvars>>

NextBuilder ==
    \/ Construct \/ LoadOk \/ LoadNotFound \/ LoadError \/ Validate
    \/ SaveOk \/ SaveFail \/ ReopenOk \/ ReopenFail \/ AnchorOk \/ AnchorFail
    \/ Finish \/ RunAgain

(***************************************************************************)
(* The layout policy applied to one node.                                  *)
(***************************************************************************)
\* ids that are file names: no separator in them
NodeIds ==
    { <<"b", "a", "r">>, <<"x">>, <<"g", "c", "t", "s">>, <<"t", "-", "1">>,
      <<"a", ".", "b">> }

FOO == <<"f", "o", "o">>

EXAMPLE_ORG_CAT ==
    << "h", "t", "t", "p", "s", ":", "/", "/", "e", "x", "a", "m", "p", "l", "e",
       ".", "o", "r", "g", "/", "c", "a", "t" >>

ParentDirs ==
    { FOO, FOO \o <<"/">>, <<>>, <<"/">>, RELEASE_DIR,
      OsPathJoin2(RELEASE_DIR, <<"g", "c", "t", "s">>),
      EXAMPLE_ORG_CAT, EXAMPLE_ORG_CAT \o <<"/">>,
      Dirname(CATALOG_PUBLISHED_URL),
      <<"s", "3", ":", "/", "/", "b", "/", "c">>,
      <<"C", ":", "/", "f", "o", "o">>,
      <<"C", ":", "\\", "f", "o", "o">> }

InitLayout ==
    /\ prog = "layout"
    /\ lay_kind \in {"item", "collection"}
    /\ lay_id \in NodeIds
    /\ lay_parent \in ParentDirs
    /\ lay_join = "none"
    /\ lay_href = <<>>
    /\ lay_pc = "call"
    /\ BuilderIdle /\ ValidatorIdle

\* LayoutStrategy.get_href on an item: get_item_href
LayoutItem ==
    /\ prog = "layout" /\ lay_pc = "call" /\ lay_kind = "item"
    /\ lay_join' = JoinTypeFromParsedUri(SafeUrlParse(lay_parent))
    /\ lay_href' = GetItemHref(lay_id, lay_parent)
    /\ lay_pc' = "done"
    /\ UNCHANGED <<prog, lay_kind, lay_id, lay_parent, bvars, vvars>>

\* LayoutStrategy.get_href on a collection: get_collection_href
LayoutCollection ==
    /\ prog = "layout" /\ lay_pc = "call" /\ lay_kind = "collection"
    /\ lay_join' = JoinTypeFromParsedUri(SafeUrlParse(lay_parent))
    /\ lay_href' = GetCollectionHref(lay_id, lay_parent)
    /\ lay_pc' = "done"
    /\ UNCHANGED <<prog, lay_kind, lay_id, lay_parent, bvars, vvars>>

NextLayout == LayoutItem \/ LayoutCollection

(***************************************************************************)
(* The validator: main of validate_catalog.py.                             *)
(***************************************************************************)
\* a document of the tree: missing, unparsable, schema-invalid or valid
NodeStates == {"none", "garbage", "invalid", "valid"}

InitValidator ==
    /\ prog = "validator"
    /\ v_argv \in BOOLEAN
    /\ v_root \in NodeStates
    /\ v_kids \in SeqsUpTo(NodeStates, MaxChildren)
    /\ v_pc = "start" /\ v_i = 0 /\ v_exc = "none"
    /\ v_exitcalls = <<>> /\ v_status = -1 /\ v_out = <<>>
    /\ BuilderIdle /\ LayoutIdle

\* an except clause that catches everything, SystemExit included
ExceptClauseBare(exc) == TRUE

\* "except Exception": SystemExit derives from BaseException and passes it by
ExceptClauseMatches(exc) == exc # "SystemExit"

\* line 18: one positional argument
VParseArgsOk ==
    /\ prog = "validator" /\ v_pc = "start" /\ v_argv
    /\ v_pc' = "read"
    /\ UNCHANGED <<prog, v_argv, v_root, v_kids, v_i, v_exc, v_exitcalls, v_status,
                   v_out, bvars, layvars>>

\* line 18: argparse rejects the command line and exits 2, outside the try
VParseArgsError ==
    /\ prog = "validator" /\ v_pc = "start" /\ ~v_argv
    /\ v_out' = Append(v_out, Msg("stderr", "usage", <<>>))
    /\ v_exitcalls' = Append(v_exitcalls, 2)
    /\ v_status' = 2
    /\ v_pc' = "exited"
    /\ UNCHANGED <<prog, v_argv, v_root, v_kids, v_i, v_exc, bvars, layvars>>

\* lines 21-26: the root loads
VReadRootOk ==
    /\ prog = "validator" /\ v_pc = "read" /\ v_root \in {"invalid", "valid"}
    /\ v_out' = v_out \o << Msg("stdout", "attempting", <<>>),
                            Msg("stdout", "successfully_read", <<>>),
                            Msg("stdout", "starting", <<>>) >>
    /\ v_i' = 0
    /\ v_pc' = "validate"
    /\ UNCHANGED <<prog, v_argv, v_root, v_kids, v_exc, v_exitcalls, v_status,
                   bvars, layvars>>

\* lines 21-23: Catalog.from_file raises
VReadRootFail ==
    /\ prog = "validator" /\ v_pc = "read" /\ v_root \in {"none", "garbage"}
    /\ v_out' = Append(v_out, Msg("stdout", "attempting", <<>>))
    /\ v_exc' = "Exception"
    /\ v_pc' = "except"
    /\ UNCHANGED <<prog, v_argv, v_root, v_kids, v_i, v_exitcalls, v_status,
                   bvars, layvars>>

\* the state of node i of the walk: the root, then its children in order
NodeAt(i) == IF i = 0 THEN v_root ELSE v_kids[i]

\* line 29: validate_all resolves and validates the next node of the tree
VValidateNodeOk ==
    /\ prog = "validator" /\ v_pc = "validate" /\ v_i <= Len(v_kids)
    /\ NodeAt(v_i) = "valid"
    /\ v_i' = v_i + 1
    /\ UNCHANGED <<prog, v_argv, v_root, v_kids, v_pc, v_exc, v_exitcalls, v_status,
                   v_out, bvars, layvars>>

\* line 29: the node is missing, unparsable or fails its schema
VValidateNodeFail ==
    /\ prog = "validator" /\ v_pc = "validate" /\ v_i <= Len(v_kids)
    /\ NodeAt(v_i) # "valid"
    /\ v_exc' = "Exception"
    /\ v_pc' = "except"
    /\ UNCHANGED <<prog, v_argv, v_root, v_kids, v_i, v_exitcalls, v_status, v_out,
                   bvars, layvars>>

\* lines 31-33: the walk is over; sys.exit(0) raises SystemExit inside the try
VSuccess ==
    /\ prog = "validator" /\ v_pc = "validate" /\ v_i > Len(v_kids)
    /\ v_out' = v_out \o << Msg("stdout", "validation_successful", <<>>),
                            Msg("stdout", "all_valid", <<>>) >>
    /\ v_exitcalls' = Append(v_exitcalls, 0)
    /\ v_exc' = "SystemExit"
    /\ v_pc' = "except"
    /\ UNCHANGED <<prog, v_argv, v_root, v_kids, v_i, v_status, bvars, layvars>>

\* lines 35-38: the handler reports on the error stream and exits 1
VHandler ==
    /\ prog = "validator" /\ v_pc = "except" /\ ExceptClauseMatches(v_exc)
    /\ v_out' = v_out \o << Msg("stderr", "validation_failed", <<>>),
                            Msg("stderr", "error", <<>>) >>
    /\ v_exitcalls' = Append(v_exitcalls, 1)
    /\ v_status' = 1
    /\ v_pc' = "exited"
    /\ UNCHANGED <<prog, v_argv, v_root, v_kids, v_i, v_exc, bvars, layvars>>

\* the exception is none the handler catches: SystemExit ends the process
VPropagate ==
    /\ prog = "validator" /\ v_pc = "except" /\ ~ExceptClauseMatches(v_exc)
    /\ v_status' = v_exitcalls[Len(v_exitcalls)]
    /\ v_pc' = "exited"
    /\ UNCHANGED <<prog, v_argv, v_root, v_kids, v_i, v_exc, v_exitcalls, v_out,
                   bvars, layvars>>

NextValidator ==
    \/ VParseArgsOk \/ VParseArgsError \/ VReadRootOk \/ VReadRootFail
    \/ VValidateNodeOk \/ VValidateNodeFail \/ VSuccess \/ VHandler \/ VPropagate

(***************************************************************************)
(* The three programs.                                                     *)
(***************************************************************************)
Init == InitBuilder \/ InitLayout \/ InitValidator

Next == NextBuilder \/ NextLayout \/ NextValidator

Spec == Init /\ [][Next]_vars

(***************************************************************************)
(* Vocabulary of the properties.                                           *)
(***************************************************************************)
\* a href written relative to the document that holds it
HrefIsRelative(h) == StartsWith(h, <<".", "/">>) \/ StartsWith(h, <<".", ".", "/">>)

Count(s, Test(_)) == Len(SelectSeq(s, Test))

LoopIsOver == pc \in {"save", "reopen", "anchor", "finish", "done"}
                 \/ (pc = "loop" /\ idx > Len(order))

\* the file of a configured name is there and is a collection document
Loads(n) == disk[CollectionPath(n)].type = "Collection"

NameOfPath(p) == CHOOSE n \in Names : CollectionPath(n) = p

LoadsOf(log) == SelectSeq(log, LAMBDA e : e.phase = "load")

Printed(msg, arg) == \E i \in 1..Len(out) : out[i].msg = msg /\ out[i].arg = arg

\* C1: a configured name whose collection.json does not load (missing, or any
\* other error) gets a warning naming its path, is not attached, and does not
\* stop the loop: no exception leaves the loop, and when the loop is over the
\* children of the root are exactly the configured names that loaded.
C1_SkipAndContinue ==
    prog = "builder" =>
       /\ (pc = "raised" => io # <<>> /\ io[Len(io)].phase # "load")
       /\ \A i \in 1..Len(io) :
             (io[i].phase = "load" /\ ~io[i].ok) =>
                /\ \/ Printed("warning_not_found", io[i].path)
                   \/ Printed("warning_error", io[i].path)
                /\ \A k \in 1..Len(children) : CollectionPath(children[k].name) # io[i].path
       /\ LoopIsOver =>
             /\ \A n \in Names :
                   Count(children, LAMBDA c : c.name = n)
                      = IF Loads(n) THEN Count(collection_dirs, LAMBDA d : d = n) ELSE 0
             /\ Count(catalog.links, LAMBDA l : l.rel = "child") = Len(children)
             /\ \A n \in Names :
                   (~Loads(n) /\ Count(collection_dirs, LAMBDA d : d = n) > 0) =>
                      \/ Printed("warning_not_found", CollectionPath(n))
                      \/ Printed("warning_error", CollectionPath(n))

\* C1 witness: the save phase is reached with one name skipped and one attached
C1_Witness ==
    /\ prog = "builder" /\ pc = "save"
    /\ Len(children) = 1 /\ Len(collection_dirs) = 2
    /\ \E i \in 1..Len(out) : out[i].msg = "warning_error"

SelfLinks(doc) == SelectSeq(doc.links, LAMBDA l : l.rel = "self")

SaveIsOver == prog = "builder" /\ pc \in {"reopen", "anchor"}

WrittenBySave(p) ==
    \E i \in 1..Len(io) : io[i].phase = "save" /\ io[i].ok /\ io[i].path = p

\* C3: between the self-contained save and the re-anchor, every link of every
\* document the save wrote has a relative href: no absolute href exists yet.
C3_AllLinksRelativeAfterSave ==
    SaveIsOver =>
       \A p \in Paths :
          WrittenBySave(p) =>
             \A i \in 1..Len(disk[p].links) : HrefIsRelative(disk[p].links[i].href)

\* C4: a second run on what the first run left produces the same catalog.json
\* and the same links in every collection document.
C4_SecondRunSame ==
    (prog = "builder" /\ pc = "done" /\ run >= 2) =>
       /\ disk[CatalogPath] = prev_disk[CatalogPath]
       /\ \A p \in Paths : disk[p].links = prev_disk[p].links

\* C4 witness: the second run is over with two collections attached
C4_Witness ==
    prog = "builder" /\ pc = "done" /\ run = 2 /\ Len(children) = 2

\* the directory as a path names it: no trailing separator, the root excepted
DirOf(parent) == IF RStripSlash(parent) = <<>> THEN parent ELSE RStripSlash(parent)

\* C5: the policy places an item at <parent>/items/<id>.json, never beside the
\* collection document, and a collection at <parent>/<id>/collection.json;
\* ("foo", "bar") gives "foo/items/bar.json"; the builder's children sit at
\* <output-dir>/<id>/collection.json.
C5_ItemPlacement ==
    /\ (prog = "layout" /\ lay_pc = "done" /\ lay_kind = "item") =>
          /\ Basename(lay_href) = lay_id \o JSON_EXT
          /\ Basename(Dirname(lay_href)) = ITEMS_DIR
          /\ Dirname(Dirname(lay_href)) = DirOf(lay_parent)
          /\ Dirname(lay_href) # DirOf(lay_parent)
          /\ (lay_parent = FOO /\ lay_id = <<"b", "a", "r">>) =>
                lay_href = << "f", "o", "o", "/", "i", "t", "e", "m", "s", "/",
                              "b", "a", "r", ".", "j", "s", "o", "n" >>
    /\ (prog = "layout" /\ lay_pc = "done" /\ lay_kind = "collection") =>
          /\ Basename(lay_href) = COLLECTION_JSON
          /\ Basename(Dirname(lay_href)) = lay_id
          /\ Dirname(Dirname(lay_href)) = DirOf(lay_parent)
    /\ prog = "builder" =>
          \A k \in 1..Len(children) :
             GetSelfHref(children[k].links)
                = RELEASE_DIR \o <<"/">> \o children[k].id \o <<"/">> \o COLLECTION_JSON

\* C5 witness: the item "bar" was placed under the parent "foo"
C5_Witness ==
    /\ prog = "layout" /\ lay_pc = "done" /\ lay_kind = "item"
    /\ lay_parent = FOO /\ lay_id = <<"b", "a", "r">>

\* the parent is written scheme://...
IsUrlText(p) ==
    \E i \in 2..(Len(p) - 2) :
       /\ SubSeq(p, i, i + 2) = <<":", "/", "/">>
       /\ \A j \in 1..(i - 1) : p[j] \notin {":", "/", "\\"}

\* C6: for a parent that is a URL the policy joins as a URL, with "/" and no
\* other separator; for a parent with no scheme it joins as a path; and
\* ("https://example.org/cat", "x") gives "https://example.org/cat/items/x.json".
C6_UrlOrPathJoin ==
    (prog = "layout" /\ lay_pc = "done" /\ lay_kind = "item") =>
       /\ IsUrlText(lay_parent) =>
             /\ lay_join = "url"
             /\ lay_href = RStripSlash(lay_parent) \o <<"/">> \o ITEMS_DIR
                              \o <<"/">> \o lay_id \o JSON_EXT
       /\ Find(lay_parent, ":") = 0 =>
             /\ lay_join = "path"
             /\ (lay_parent # <<>> /\ ~EndsWith(lay_parent, <<"/">>)) =>
                   lay_href = lay_parent \o <<"/">> \o ITEMS_DIR \o <<"/">>
                                 \o lay_id \o JSON_EXT
             /\ \A i \in 1..Len(lay_href) :
                   lay_href[i] = "\\"
                      => "\\" \in {lay_parent[j] : j \in 1..Len(lay_parent)}
       /\ (lay_parent = EXAMPLE_ORG_CAT /\ lay_id = <<"x">>) =>
             lay_href = EXAMPLE_ORG_CAT
                           \o << "/", "i", "t", "e", "m", "s", "/", "x", ".", "j",
                                 "s", "o", "n" >>

\* C6 witness: the item "x" was placed under https://example.org/cat
C6_Witness ==
    /\ prog = "layout" /\ lay_pc = "done" /\ lay_kind = "item"
    /\ lay_parent = EXAMPLE_ORG_CAT /\ lay_id = <<"x">>

TreeIsValid == v_root = "valid" /\ \A i \in 1..Len(v_kids) : v_kids[i] = "valid"

OnStream(stream, msg) ==
    \E i \in 1..Len(v_out) : v_out[i].stream = stream /\ v_out[i].msg = msg

\* C7: main, given its argument, ends with one exit status: 0 after the success
\* message exactly when the root loads and the whole tree validates, 1 after an
\* error on the error stream on any failure; an exit 0 is never followed by the
\* handler's exit 1.
C7_ExitStatus ==
    (prog = "validator" /\ v_pc = "exited" /\ v_argv) =>
       /\ Len(v_exitcalls) = 1
       /\ v_status = v_exitcalls[1]
       /\ v_status \in {0, 1}
       /\ v_status = 0 <=> TreeIsValid
       /\ v_status = 0 =>
             /\ OnStream("stdout", "validation_successful")
             /\ \A i \in 1..Len(v_out) : v_out[i].stream # "stderr"
       /\ v_status = 1 =>
             /\ OnStream("stderr", "error")
             /\ ~OnStream("stdout", "validation_successful")

\* C7 witness: a valid tree of a root and a child was validated and main exited 0
C7_Witness ==
    /\ prog = "validator" /\ v_pc = "exited" /\ v_status = 0
    /\ Len(v_kids) >= 1 /\ v_i = Len(v_kids) + 1

\* C8: when an attached collection is schema-invalid the builder reports the
\* validation error and writes no document.
C8_InvalidTreeNotSaved ==
    (prog = "builder" /\ \E k \in 1..Len(children) : ~children[k].valid) =>
       /\ \A i \in 1..Len(io) : io[i].op # "write"
       /\ pc \notin {"save", "reopen", "anchor", "finish", "done"}

NameLeq(a, b) == ~StrLess(b, a)

ChildLinks(doc) == SelectSeq(doc.links, LAMBDA l : l.rel = "child")

\* C9: the loads happen in the order of the names, whatever the order configured,
\* one for each configured name; the children and the root's child links are
\* in that order; every load comes before every write; the last write of a
\* finished run is the re-save of the root.
C9_SortedLoadsThenWrites ==
    prog = "builder" =>
       /\ \A i, j \in 1..Len(LoadsOf(io)) :
             i < j => NameLeq(NameOfPath(LoadsOf(io)[i].path), NameOfPath(LoadsOf(io)[j].path))
       /\ \A i, j \in 1..Len(children) : i < j => NameLeq(children[i].name, children[j].name)
       /\ \A i, j \in 1..Len(io) :
             (io[i].phase = "load" /\ io[j].op = "write") => i < j
       /\ LoopIsOver =>
             \A n \in Names :
                Count(LoadsOf(io), LAMBDA e : e.path = CollectionPath(n))
                   = Count(collection_dirs, LAMBDA d : d = n)
       /\ pc \in {"reopen", "anchor", "finish", "done"} =>
             /\ Len(ChildLinks(disk[CatalogPath])) = Len(children)
             /\ \A k \in 1..Len(children) :
                   ChildLinks(disk[CatalogPath])[k].href
                      = <<".", "/">> \o children[k].name \o <<"/">> \o COLLECTION_JSON
       /\ pc = "done" =>
             io[Len(io)] = Io("write", CatalogPath, TRUE, "anchor")

\* C9 witness: a run configured out of order is over with both names attached
C9_Witness ==
    /\ prog = "builder" /\ pc = "done" /\ Len(children) = 2
    /\ collection_dirs = << <<"g", "c", "t", "s">>, <<"g", "c">> >>

\* C10: a failure of the save, of the re-open or of the root re-save ends the
\* run there: nothing is read or written after it and the final message is
\* not printed.
C10_FailurePropagates ==
    prog = "builder" =>
       \A i \in 1..Len(io) :
          (~io[i].ok /\ io[i].phase \in {"save", "reopen", "anchor"}) =>
             /\ i = Len(io)
             /\ pc = "raised"
             /\ \A k \in 1..Len(out) : out[k].msg # "successfully_saved"

\* C10 witness: the save raised after writing one collection
C10_Witness ==
    /\ prog = "builder" /\ pc = "raised"
    /\ Len(io) >= 2
    /\ io[Len(io)].phase = "save" /\ io[Len(io) - 1].phase = "save"

====
